---- MODULE Spec2Model ----
(***************************************************************************)
(* lilchain: an in-memory hash-chained ledger (src/src/lib.rs).            *)
(*                                                                         *)
(* A Blockchain owns a chain of Blocks, a batch of pending Transactions    *)
(* and a u32 issuance counter.  submit_tx creates a Transaction and queues *)
(* it; new_block seals the pending batch into a Block linked to the tip.   *)
(*                                                                         *)
(* Text is modelled by TLA+ strings and `+` on Strings by \o.  SHA-256 is  *)
(* modelled as an ideal (injective) digest: hash_str(s) wraps its input in *)
(* a pair of brackets that no payload contains, so two digests are equal   *)
(* exactly when their inputs are, and a concatenation of digests can be    *)
(* read back in only one way.                                              *)
(***************************************************************************)
EXTENDS Integers, Sequences, FiniteSets, TLC

VARIABLES
    chain,      \* Blockchain.chain   : Vec<Block>
    pending,    \* Blockchain.pending : Vec<Transaction>
    nonce,      \* Blockchain.nonce   : u32
    now,        \* the last value the clock returned
    op,         \* the last operation called on the ledger
    calls,      \* how many operations were called since construction
    submitted,  \* history: every Transaction submit_tx created, in order
    twin        \* a second Blockchain that receives the same calls, if any

vars == <<chain, pending, nonce, now, op, calls, submitted, twin>>

----------------------------------------------------------------------------
(* Bounds of the model.                                                    *)

\* operations per ledger in Spec
MaxCalls == 4
\* operations per ledger in SpecLong
MaxLongCalls == 12
\* the clock reads a value in 0..MaxTime
MaxTime == 1
\* width in bits of the model's unsigned counters (u32 in the source)
Bits == 5

\* operations per ledger in SpecWrap
MaxWrapCalls == 7
\* width in bits of the counters in SpecWrap, small enough to be exhausted
WrapBits == 2

\* operations per ledger in SpecFail
MaxFailCalls == 3

\* operations per ledger in SpecTwin
MaxTwinCalls == 2

\* operations per ledger in SpecDigits: enough for a nonce of two digits
MaxDigitCalls == 11

Times == 0..MaxTime
Payloads == {"apple", "orange", "banana"}
\* payloads that differ by a trailing decimal digit
DigitPayloads == {"a", "a1"}
LongPayloads == {"hello"}
LongTimes == {0}

----------------------------------------------------------------------------
(* utils                                                                   *)

\* utils::hash_str: the hexadecimal text of the SHA-256 digest of bytes
hash_str(bytes) == "<" \o bytes \o ">"

\* the decimal digit d as text
Digit(d) ==
    CASE d = 0 -> "0" [] d = 1 -> "1" [] d = 2 -> "2" [] d = 3 -> "3"
      [] d = 4 -> "4" [] d = 5 -> "5" [] d = 6 -> "6" [] d = 7 -> "7"
      [] d = 8 -> "8" [] d = 9 -> "9"

\* Decimal with the digits in the order the divisions produce them, least
\* significant first
RECURSIVE Decimal_lsd_first(_)
Decimal_lsd_first(n) ==
    IF n < 10 THEN Digit(n) ELSE Digit(n % 10) \o Decimal_lsd_first(n \div 10)

\* Display for u32, as format!("{}", n) renders it: decimal, most
\* significant digit first, no sign, no padding
RECURSIVE Decimal(_)
Decimal(n) == IF n < 10 THEN Digit(n) ELSE Decimal(n \div 10) \o Digit(n % 10)

\* one more than the largest value of an unsigned counter of w bits
Modulus(w) == 2 ^ w

----------------------------------------------------------------------------
(* Transaction                                                             *)

\* Transaction_new with the timestamp hashed into the id
Transaction_new_stamped(payload, n, t) ==
    LET id_str == payload \o Decimal(n) \o Decimal(t)
        id == hash_str(id_str)
    IN  [id |-> id, payload |-> payload, nonce |-> n, timestamp |-> t]

\* Transaction_new hashing the payload alone
Transaction_new_no_nonce(payload, n, t) ==
    LET id_str == payload
        id == hash_str(id_str)
    IN  [id |-> id, payload |-> payload, nonce |-> n, timestamp |-> t]

\* Transaction::new(payload, nonce), the clock reading t
Transaction_new(payload, n, t) ==
    LET id_str == payload \o Decimal(n)
        id == hash_str(id_str)
    IN  [id |-> id, payload |-> payload, nonce |-> n, timestamp |-> t]

----------------------------------------------------------------------------
(* Block                                                                   *)

\* genesis with the timestamp hashed into the id
genesis_stamped(t) ==
    [id |-> hash_str("genesis" \o Decimal(t)),
     previous |-> "",
     index |-> 0,
     timestamp |-> t,
     transactions |-> <<>>]

\* Block::genesis(), the clock reading t
genesis(t) ==
    [id |-> hash_str("genesis"),
     previous |-> "",
     index |-> 0,
     timestamp |-> t,
     transactions |-> <<>>]

\* transactions.iter().map(|tx| tx.id.clone()).fold(cur, |cur, next| cur + &next)
RECURSIVE FoldIds(_, _)
FoldIds(transactions, cur) ==
    IF transactions = <<>> THEN cur
    ELSE FoldIds(Tail(transactions), cur \o Head(transactions).id)

\* Block_new copying the link of the previous block instead of its id
Block_new_stale_link(previous, transactions, t, w) ==
    LET id_str == FoldIds(transactions, "") \o previous.id
        id == hash_str(id_str)
    IN  [id |-> id,
         previous |-> previous.previous,
         index |-> (previous.index + 1) % Modulus(w),
         timestamp |-> t,
         transactions |-> transactions]

\* Block_new hashing the previous id before the transactions' ids
Block_new_previous_first(previous, transactions, t, w) ==
    LET id_str == previous.id \o FoldIds(transactions, "")
        id == hash_str(id_str)
    IN  [id |-> id,
         previous |-> previous.id,
         index |-> (previous.index + 1) % Modulus(w),
         timestamp |-> t,
         transactions |-> transactions]

\* Block_new hashing the transactions' ids alone
Block_new_without_previous(previous, transactions, t, w) ==
    LET id_str == FoldIds(transactions, "")
        id == hash_str(id_str)
    IN  [id |-> id,
         previous |-> previous.id,
         index |-> (previous.index + 1) % Modulus(w),
         timestamp |-> t,
         transactions |-> transactions]

\* Block_new stamping the block with the time of the previous block
Block_new_stale_time(previous, transactions, t, w) ==
    LET id_str == FoldIds(transactions, "") \o previous.id
        id == hash_str(id_str)
    IN  [id |-> id,
         previous |-> previous.id,
         index |-> (previous.index + 1) % Modulus(w),
         timestamp |-> previous.timestamp,
         transactions |-> transactions]

\* Block::new(previous, transactions) with index a counter of w bits that
\* wraps, the clock reading t
Block_new(previous, transactions, t, w) ==
    LET id_str == FoldIds(transactions, "") \o previous.id
        id == hash_str(id_str)
    IN  [id |-> id,
         previous |-> previous.id,
         index |-> (previous.index + 1) % Modulus(w),
         timestamp |-> t,
         transactions |-> transactions]

----------------------------------------------------------------------------
(* Blockchain                                                              *)

\* the value of twin while the program has one ledger only
NoLedger == [chain |-> <<>>, pending |-> <<>>, nonce |-> 0]

\* Blockchain::new() for the second ledger, the clock reading t
twin_new(t) == [chain |-> <<genesis(t)>>, pending |-> <<>>, nonce |-> 0]

\* Blockchain::submit_tx(payload) on ledger l, the clock reading t
twin_submit_tx(l, payload, t, w) ==
    LET tx == Transaction_new(payload, l.nonce, t)
    IN  [chain |-> l.chain,
         pending |-> Append(l.pending, tx),
         nonce |-> (l.nonce + 1) % Modulus(w)]

\* Blockchain::new_block() on ledger l, the clock reading t
twin_new_block(l, t, w) ==
    LET batch == l.pending
        b == Block_new(l.chain[(Len(l.chain) - 1) + 1], batch, t, w)
    IN  [chain |-> Append(l.chain, b),
         pending |-> <<>>,
         nonce |-> l.nonce]

\* Blockchain::new(), the clock reading a value of T
Blockchain_new(T) ==
    \E t \in T :
        /\ chain = <<genesis(t)>>
        /\ pending = <<>>
        /\ nonce = 0
        /\ now = t
        /\ op = "new"
        /\ calls = 0
        /\ submitted = <<>>

\* Blockchain::current_block: &self.chain[self.chain.len() - 1]
\* (Vec indices start at 0, sequence indices at 1)
current_block == chain[(Len(chain) - 1) + 1]

\* submit_tx incrementing the counter before it creates the transaction
submit_tx_preincrement(payload, t, w) ==
    LET tx == Transaction_new(payload, (nonce + 1) % Modulus(w), t)
    IN  /\ pending' = Append(pending, tx)
        /\ submitted' = Append(submitted, tx)
        /\ now' = t
        /\ calls' = calls + 1
        /\ \/ /\ nonce' = (nonce + 1) % Modulus(w)
              /\ op' = "submit_tx"
           \/ /\ nonce + 1 >= Modulus(w)
              /\ nonce' = nonce
              /\ op' = "panic"
        /\ UNCHANGED chain

\* submit_tx inserting the transaction at the front of pending
submit_tx_push_front(payload, t, w) ==
    LET tx == Transaction_new(payload, nonce, t)
    IN  /\ pending' = <<tx>> \o pending
        /\ submitted' = Append(submitted, tx)
        /\ now' = t
        /\ calls' = calls + 1
        /\ \/ /\ nonce' = (nonce + 1) % Modulus(w)
              /\ op' = "submit_tx"
           \/ /\ nonce + 1 >= Modulus(w)
              /\ nonce' = nonce
              /\ op' = "panic"
        /\ UNCHANGED chain

\* submit_tx with the tip's transactions sharing storage with pending: the
\* push shows in the sealed block too
submit_tx_into_tip(payload, t, w) ==
    LET tx == Transaction_new(payload, nonce, t)
    IN  /\ pending' = Append(pending, tx)
        /\ chain' = [chain EXCEPT ![Len(chain)].transactions = Append(@, tx)]
        /\ submitted' = Append(submitted, tx)
        /\ now' = t
        /\ calls' = calls + 1
        /\ \/ /\ nonce' = (nonce + 1) % Modulus(w)
              /\ op' = "submit_tx"
           \/ /\ nonce + 1 >= Modulus(w)
              /\ nonce' = nonce
              /\ op' = "panic"

\* Blockchain::submit_tx(payload) with nonce a counter of w bits, the clock
\* reading t.  `self.nonce += 1` at the largest value wraps to 0 in a build
\* without overflow checks and panics, after the push, in a build with them.
submit_tx(payload, t, w) ==
    LET tx == Transaction_new(payload, nonce, t)
    IN  /\ pending' = Append(pending, tx)
        /\ submitted' = Append(submitted, tx)
        /\ now' = t
        /\ calls' = calls + 1
        /\ \/ /\ nonce' = (nonce + 1) % Modulus(w)
              /\ op' = "submit_tx"
           \/ /\ nonce + 1 >= Modulus(w)
              /\ nonce' = nonce
              /\ op' = "panic"
        /\ UNCHANGED chain

\* submit_tx taking the nonce and advancing the counter before it builds the
\* transaction, the clock failing
submit_tx_clock_failure_counted(payload, w) ==
    /\ nonce' = (nonce + 1) % Modulus(w)
    /\ op' = "clock_panic"
    /\ calls' = calls + 1
    /\ UNCHANGED <<chain, pending, now, submitted>>

\* Blockchain::submit_tx(payload), the clock failing: Transaction::new
\* computes the id and panics in current_time (`expect`), so submit_tx
\* unwinds in its first statement, before the push and the increment
submit_tx_clock_failure(payload, w) ==
    /\ op' = "clock_panic"
    /\ calls' = calls + 1
    /\ UNCHANGED <<chain, pending, nonce, now, submitted>>

\* Blockchain::new_block(), the clock failing: the copy of pending is a
\* local, Block::new computes id, previous and index and panics in
\* current_time (or before it on the index), so new_block unwinds in its
\* second statement, before the push and the reset of pending
new_block_clock_failure(w) ==
    /\ op' = "clock_panic"
    /\ calls' = calls + 1
    /\ UNCHANGED <<chain, pending, nonce, now, submitted>>

\* new_block without the reset of pending
new_block_keeps_pending(t, w) ==
    LET batch == pending
        b == Block_new(current_block, batch, t, w)
    IN  \/ /\ chain' = Append(chain, b)
           /\ now' = t
           /\ op' = "new_block"
           /\ calls' = calls + 1
           /\ UNCHANGED <<pending, nonce, submitted>>
        \/ /\ current_block.index + 1 >= Modulus(w)
           /\ op' = "panic"
           /\ calls' = calls + 1
           /\ UNCHANGED <<chain, pending, nonce, now, submitted>>

\* new_block replacing the chain by the new block instead of pushing it
new_block_truncates(t, w) ==
    LET batch == pending
        b == Block_new(current_block, batch, t, w)
    IN  \/ /\ chain' = <<b>>
           /\ pending' = <<>>
           /\ now' = t
           /\ op' = "new_block"
           /\ calls' = calls + 1
           /\ UNCHANGED <<nonce, submitted>>
        \/ /\ current_block.index + 1 >= Modulus(w)
           /\ op' = "panic"
           /\ calls' = calls + 1
           /\ UNCHANGED <<chain, pending, nonce, now, submitted>>

\* new_block returning early when pending is empty
new_block_skips_empty(t, w) ==
    LET batch == pending
        b == Block_new(current_block, batch, t, w)
    IN  \/ /\ pending = <<>>
           /\ op' = "new_block"
           /\ calls' = calls + 1
           /\ UNCHANGED <<chain, pending, nonce, now, submitted>>
        \/ /\ pending # <<>>
           /\ chain' = Append(chain, b)
           /\ pending' = <<>>
           /\ now' = t
           /\ op' = "new_block"
           /\ calls' = calls + 1
           /\ UNCHANGED <<nonce, submitted>>
        \/ /\ current_block.index + 1 >= Modulus(w)
           /\ op' = "panic"
           /\ calls' = calls + 1
           /\ UNCHANGED <<chain, pending, nonce, now, submitted>>

\* new_block resetting the counter together with pending
new_block_resets_nonce(t, w) ==
    LET batch == pending
        b == Block_new(current_block, batch, t, w)
    IN  \/ /\ chain' = Append(chain, b)
           /\ pending' = <<>>
           /\ nonce' = 0
           /\ now' = t
           /\ op' = "new_block"
           /\ calls' = calls + 1
           /\ UNCHANGED submitted
        \/ /\ current_block.index + 1 >= Modulus(w)
           /\ op' = "panic"
           /\ calls' = calls + 1
           /\ UNCHANGED <<chain, pending, nonce, now, submitted>>

\* Blockchain::new_block() with index a counter of w bits, the clock
\* reading t.  `previous.index + 1` at the largest value wraps to 0 in a
\* build without overflow checks and panics, before the clock is read and
\* the block is pushed, in a build with them.
new_block(t, w) ==
    LET batch == pending
        b == Block_new(current_block, batch, t, w)
    IN  \/ /\ chain' = Append(chain, b)
           /\ pending' = <<>>
           /\ now' = t
           /\ op' = "new_block"
           /\ calls' = calls + 1
           /\ UNCHANGED <<nonce, submitted>>
        \/ /\ current_block.index + 1 >= Modulus(w)
           /\ op' = "panic"
           /\ calls' = calls + 1
           /\ UNCHANGED <<chain, pending, nonce, now, submitted>>

----------------------------------------------------------------------------
(* Specifications                                                          *)

\* a client calls submit_tx with a payload of P, at most max calls in all
Submit(P, T, max) == \E payload \in P : \E t \in T :
                         /\ calls < max /\ submit_tx(payload, t, Bits)
                         /\ UNCHANGED twin

\* a client calls new_block, at most max calls in all
Seal(T, max) == \E t \in T : /\ calls < max /\ new_block(t, Bits)
                              /\ UNCHANGED twin

\* short runs over several payloads and clock readings
Init == Blockchain_new(Times) /\ twin = NoLedger

SubmitAny == Submit(Payloads, Times, MaxCalls)

SealAny == Seal(Times, MaxCalls)

Next == SubmitAny \/ SealAny

Spec == Init /\ [][Next]_vars

\* long runs of one payload under a constant clock: nonces of two digits
InitLong == Blockchain_new(LongTimes) /\ twin = NoLedger

SubmitLong == Submit(LongPayloads, LongTimes, MaxLongCalls)

SealLong == Seal(LongTimes, MaxLongCalls)

NextLong == SubmitLong \/ SealLong

SpecLong == InitLong /\ [][NextLong]_vars

\* runs long enough to exhaust counters of WrapBits bits
SubmitWrap == \E payload \in LongPayloads : \E t \in LongTimes :
                  /\ calls < MaxWrapCalls /\ submit_tx(payload, t, WrapBits)
                  /\ UNCHANGED twin

SealWrap == \E t \in LongTimes :
                /\ calls < MaxWrapCalls /\ new_block(t, WrapBits)
                /\ UNCHANGED twin

NextWrap == SubmitWrap \/ SealWrap

SpecWrap == InitLong /\ [][NextWrap]_vars

\* short runs in which any clock read may fail
SubmitFail == Submit(Payloads, Times, MaxFailCalls)

SealFail == Seal(Times, MaxFailCalls)

SubmitClockFailure == \E payload \in Payloads :
                          /\ calls < MaxFailCalls
                          /\ submit_tx_clock_failure(payload, Bits)
                          /\ UNCHANGED twin

SealClockFailure == /\ calls < MaxFailCalls /\ new_block_clock_failure(Bits)
                    /\ UNCHANGED twin

NextFail == SubmitFail \/ SealFail \/ SubmitClockFailure \/ SealClockFailure

SpecFail == Init /\ [][NextFail]_vars

\* two ledgers receive the same calls and read the clock independently
InitTwin == Blockchain_new(Times) /\ \E t \in Times : twin = twin_new(t)

SubmitBoth == \E payload \in Payloads : \E t1 \in Times : \E t2 \in Times :
                  /\ calls < MaxTwinCalls
                  /\ submit_tx(payload, t1, Bits)
                  /\ twin' = twin_submit_tx(twin, payload, t2, Bits)

SealBoth == \E t1 \in Times : \E t2 \in Times :
                /\ calls < MaxTwinCalls
                /\ new_block(t1, Bits)
                /\ twin' = twin_new_block(twin, t2, Bits)

NextTwin == SubmitBoth \/ SealBoth

SpecTwin == InitTwin /\ [][NextTwin]_vars

\* long runs over payloads one of which ends in a decimal digit
SubmitDigits == Submit(DigitPayloads, LongTimes, MaxDigitCalls)

SealDigits == Seal(LongTimes, MaxDigitCalls)

NextDigits == SubmitDigits \/ SealDigits

SpecDigits == InitLong /\ [][NextDigits]_vars

\* short runs under a clock that never reads less than it last did
LaterTimes == {t \in Times : t >= now}

SubmitMono == Submit(Payloads, LaterTimes, MaxCalls)

SealMono == Seal(LaterTimes, MaxCalls)

NextMono == SubmitMono \/ SealMono

SpecMono == Init /\ [][NextMono]_vars

----------------------------------------------------------------------------
(* Derived views of the ledger used by the properties                      *)

\* the last block of the chain, by position
Tip == chain[Len(chain)]

\* the transactions of blocks 1..n of the chain, one block after the other
RECURSIVE SealedUpTo(_)
SealedUpTo(n) ==
    IF n = 0 THEN <<>> ELSE SealedUpTo(n - 1) \o chain[n].transactions

\* every transaction the ledger holds: the blocks' in chain order, then pending
Held == SealedUpTo(Len(chain)) \o pending

\* the places where the ledger holds transaction tx: <<i, j>> for position j
\* of block i, <<0, j>> for position j of pending
Places(tx) ==
    UNION {{<<i, j>> : j \in {k \in 1..Len(chain[i].transactions) :
                                chain[i].transactions[k] = tx}} :
           i \in 1..Len(chain)}
    \cup {<<0, j>> : j \in {k \in 1..Len(pending) : pending[k] = tx}}

\* the ids of a batch joined in order with no separator, built from the end
RECURSIVE JoinIds(_)
JoinIds(txs) ==
    IF txs = <<>> THEN ""
    ELSE JoinIds(SubSeq(txs, 1, Len(txs) - 1)) \o txs[Len(txs)].id

\* the decimal text of n by positional weights: the digit of the largest
\* power of ten not above n first
RECURSIVE TopPower(_, _)
TopPower(n, p) == IF n \div p < 10 THEN p ELSE TopPower(n, p * 10)

RECURSIVE DigitsFrom(_, _)
DigitsFrom(n, p) ==
    IF p = 1 THEN Digit(n)
    ELSE Digit(n \div p) \o DigitsFrom(n % p, p \div 10)

DecimalText(n) == DigitsFrom(n, TopPower(n, 1))

\* the payloads of a batch, in order
PayloadsOf(txs) == [k \in 1..Len(txs) |-> txs[k].payload]

----------------------------------------------------------------------------
(* Properties                                                              *)

\* C1 - chain linkage: every block but the first names the id of the block
\* before it as previous and has that block's index plus one.
ChainLinkage ==
    \A i \in 1..(Len(chain) - 1) :
        /\ chain[i + 1].previous = chain[i].id
        /\ chain[i + 1].index = chain[i].index + 1

\* three blocks, the last two sealed from different batches
ChainLinkageWitness ==
    /\ Len(chain) = 3
    /\ chain[2].transactions # <<>>
    /\ chain[3].transactions # chain[2].transactions
    /\ chain[3].previous = chain[2].id
    /\ chain[3].index = 2

\* C2 - seal drains pending: a new_block step leaves pending empty, makes the
\* chain one block longer and gives the new tip exactly the batch that was
\* pending before the step, in the same order; and after apple, orange,
\* banana and one seal the chain has two blocks, block 1 holds the three
\* transactions in that order and names the genesis id, the counter is 3 and
\* pending is empty.
SealDrainsPending ==
    /\ [][op' = "new_block" =>
            /\ pending' = <<>>
            /\ Len(chain') = Len(chain) + 1
            /\ chain'[Len(chain')].transactions = pending]_vars
    /\ [](( /\ calls = 4
            /\ op = "new_block"
            /\ PayloadsOf(submitted) = <<"apple", "orange", "banana">> ) =>
            /\ Len(chain) = 2
            /\ PayloadsOf(chain[2].transactions) = <<"apple", "orange", "banana">>
            /\ chain[2].transactions = submitted
            /\ chain[2].previous = chain[1].id
            /\ nonce = 3
            /\ pending = <<>>)

\* the scenario: apple, orange, banana submitted, then sealed
SealDrainsPendingWitness ==
    /\ calls = 4
    /\ op = "new_block"
    /\ PayloadsOf(submitted) = <<"apple", "orange", "banana">>
    /\ Len(chain[2].transactions) = 3

\* C3 - nonce monotonicity: the counter equals the number of transactions
\* submitted, the k-th transaction submitted carries nonce k - 1, and a
\* new_block step leaves the counter as it was.
NonceMonotonicity ==
    /\ [](/\ nonce = Len(submitted)
          /\ \A k \in 1..Len(submitted) : submitted[k].nonce = k - 1)
    /\ [][op' = "new_block" => nonce' = nonce]_vars

\* submissions on both sides of a seal
NonceMonotonicityWitness ==
    /\ Len(submitted) >= 3
    /\ Len(chain) >= 2
    /\ chain[2].transactions # <<>>
    /\ pending # <<>>
    /\ pending[Len(pending)].nonce = nonce - 1

\* C4 - transaction conservation: the blocks' transactions in chain order
\* followed by pending are the transactions submitted, in submission order;
\* each is held in exactly one place; their number is the counter.
TransactionConservation ==
    /\ Held = submitted
    /\ Len(Held) = nonce
    /\ \A k \in 1..Len(submitted) : Cardinality(Places(submitted[k])) = 1

\* transactions sealed into two blocks by two seals
TransactionConservationWitness ==
    /\ Len(chain) >= 3
    /\ chain[2].transactions # <<>>
    /\ chain[3].transactions # <<>>
    /\ chain[3].transactions[1].nonce = Len(chain[2].transactions)

\* C5 - append-only chain of immutable blocks: every step leaves the chain
\* at least as long and every block it had unchanged in every field.
AppendOnlyChain ==
    [][/\ Len(chain') >= Len(chain)
       /\ \A i \in 1..Len(chain) :
            /\ chain'[i].id = chain[i].id
            /\ chain'[i].previous = chain[i].previous
            /\ chain'[i].index = chain[i].index
            /\ chain'[i].timestamp = chain[i].timestamp
            /\ chain'[i].transactions = chain[i].transactions]_vars

\* a submission made after a batch was sealed
AppendOnlyChainWitness ==
    /\ op = "submit_tx"
    /\ Len(chain) >= 2
    /\ Tip.transactions # <<>>
    /\ pending # <<>>

\* C6 - the chain is never empty: it has at least one block, its first block
\* is a genesis block that no step changes, and the position current_block
\* reads exists and is the last one.
ChainNeverEmpty ==
    /\ [](/\ Len(chain) >= 1
          /\ \E t \in Times : chain[1] = genesis(t)
          /\ (Len(chain) - 1) + 1 \in DOMAIN chain
          /\ current_block = Tip)
    /\ [][chain'[1] = chain[1]]_vars

\* a chain that grew, the tip no longer the genesis block
ChainNeverEmptyWitness ==
    /\ Len(chain) >= 3
    /\ current_block # chain[1]
    /\ current_block.index = Len(chain) - 1

\* C7 - genesis determinism: a ledger on which no operation was called has
\* one block with index 0, previous "", no transactions and the digest of
\* "genesis" as id, and has empty pending and counter 0.
GenesisDeterminism ==
    calls = 0 =>
        /\ Len(chain) = 1
        /\ chain[1].index = 0
        /\ chain[1].previous = ""
        /\ chain[1].transactions = <<>>
        /\ chain[1].id = hash_str("genesis")
        /\ pending = <<>>
        /\ nonce = 0

\* a fresh ledger built while the clock read a value other than 0
GenesisDeterminismWitness ==
    /\ calls = 0
    /\ op = "new"
    /\ chain[1].timestamp > 0

\* C8 - empty seal: a new_block call made with pending empty adds one block,
\* with no transactions and the digest of the previous tip's id as id.
EmptySeal ==
    [][(calls' = calls + 1 /\ op' = "new_block" /\ pending = <<>>) =>
            /\ Len(chain') = Len(chain) + 1
            /\ chain'[Len(chain')].transactions = <<>>
            /\ chain'[Len(chain')].id = hash_str(chain[Len(chain)].id)]_vars

\* two empty seals in a row
EmptySealWitness ==
    /\ op = "new_block"
    /\ Len(chain) >= 3
    /\ Tip.transactions = <<>>
    /\ chain[Len(chain) - 1].transactions = <<>>
    /\ Tip.id = hash_str(chain[Len(chain) - 1].id)

\* C9 - block identity is recomputable: every block but the first has as id
\* the digest of its transactions' ids joined in order followed by its
\* previous, and its previous is the id of the block before it.
BlockIdRecomputable ==
    \A i \in 2..Len(chain) :
        /\ chain[i].id = hash_str(JoinIds(chain[i].transactions) \o chain[i].previous)
        /\ chain[i].previous = chain[i - 1].id

\* a block of two transactions and a block sealed on top of it
BlockIdRecomputableWitness ==
    /\ Len(chain) >= 3
    /\ Len(chain[2].transactions) = 2
    /\ chain[2].transactions[1].id # chain[2].transactions[2].id
    /\ chain[3].previous = chain[2].id

\* C10 - transaction identity convention: every transaction in pending and
\* in every block has as id the digest of its payload followed by the decimal
\* text of its nonce; "hello" with nonce 0 is hashed from "hello0".
TransactionIdConvention ==
    /\ \A k \in 1..Len(Held) :
            Held[k].id = hash_str(Held[k].payload \o DecimalText(Held[k].nonce))
    /\ \A k \in 1..Len(Held) :
            (Held[k].payload = "hello" /\ Held[k].nonce = 0) =>
                Held[k].id = hash_str("hello0")

\* a sealed "hello" of nonce 0 and a pending one of a two-digit nonce
TransactionIdConventionWitness ==
    /\ Len(chain) >= 2
    /\ chain[2].transactions # <<>>
    /\ chain[2].transactions[1].payload = "hello"
    /\ chain[2].transactions[1].nonce = 0
    /\ pending # <<>>
    /\ pending[Len(pending)].nonce >= 10
    /\ pending[Len(pending)].id = hash_str("hello1" \o Digit(pending[Len(pending)].nonce - 10))

\* C11 - submit_tx always succeeds and adds exactly 1 to the counter: every
\* step that is a submit_tx call (it creates a transaction) returns normally
\* and leaves the counter one above what it was, also when the counter held
\* its largest value.
SubmitAlwaysIncrements ==
    [][submitted' # submitted =>
            /\ op' = "submit_tx"
            /\ nonce' = nonce + 1]_vars

\* C12 - no partial mutation on failure: a submit_tx or new_block call in
\* which the clock read fails leaves chain, pending and nonce as they were.
NoPartialMutation ==
    [][op' = "clock_panic" =>
            /\ chain' = chain
            /\ pending' = pending
            /\ nonce' = nonce]_vars

\* a clock failure met by a ledger that has a sealed block and a pending
\* transaction
NoPartialMutationWitness ==
    /\ op = "clock_panic"
    /\ Len(chain) = 2
    /\ Len(pending) = 1
    /\ nonce = 1

\* a transaction without its timestamp
TxIdentity(tx) == [id |-> tx.id, payload |-> tx.payload, nonce |-> tx.nonce]

\* a block without its timestamp and its transactions' timestamps
BlockIdentity(b) ==
    [id |-> b.id, previous |-> b.previous, index |-> b.index,
     transactions |-> [k \in 1..Len(b.transactions) |->
                          TxIdentity(b.transactions[k])]]

\* a ledger without its timestamps
LedgerIdentity(c, p, n) ==
    [chain |-> [i \in 1..Len(c) |-> BlockIdentity(c[i])],
     pending |-> [k \in 1..Len(p) |-> TxIdentity(p[k])],
     nonce |-> n]

\* C13 - identity is deterministic and clock-independent: two ledgers that
\* received the same calls under different clock readings agree, position by
\* position, on every transaction id, block id, previous link, index and
\* nonce, and on the counter; only timestamps may differ.
ClockIndependentIdentity ==
    LedgerIdentity(chain, pending, nonce)
        = LedgerIdentity(twin.chain, twin.pending, twin.nonce)

\* the two ledgers differ in the timestamps of the genesis block, of a sealed
\* transaction and of its block
ClockIndependentIdentityWitness ==
    /\ Len(chain) = 2
    /\ Len(chain[2].transactions) = 1
    /\ chain[1].timestamp # twin.chain[1].timestamp
    /\ chain[2].timestamp # twin.chain[2].timestamp
    /\ chain[2].transactions[1].timestamp # twin.chain[2].transactions[1].timestamp

\* C14 - frame conditions: a submit_tx step leaves chain unchanged, keeps
\* every transaction of pending in its place and adds one at the end; a
\* new_block step leaves the counter unchanged.
FrameConditions ==
    [][/\ op' = "submit_tx" =>
            /\ chain' = chain
            /\ Len(pending') = Len(pending) + 1
            /\ \A k \in 1..Len(pending) : pending'[k] = pending[k]
            /\ pending'[Len(pending')] = submitted'[Len(submitted')]
       /\ op' = "new_block" => nonce' = nonce]_vars

\* a submit_tx step that found a transaction in pending, after a new_block
\* step taken with the counter at 1
FrameConditionsWitness ==
    /\ op = "submit_tx"
    /\ Len(pending) = 2
    /\ Len(chain) = 2
    /\ Len(chain[2].transactions) = 1
    /\ nonce = 3

\* C15 - index equals height: the block at position i of the chain (from 0)
\* has index i, and the chain has one block more than new_block was called
\* (every call that is not a submit_tx call is a new_block call), also when
\* the tip's index held its largest value.
IndexEqualsHeight ==
    /\ \A i \in 1..Len(chain) : chain[i].index = i - 1
    /\ Tip.index = Len(chain) - 1
    /\ Len(chain) - 1 = calls - Len(submitted)

\* the text hashed into the id of a transaction of this payload and nonce
IdentityString(tx) == tx.payload \o DecimalText(tx.nonce)

\* the texts a payload of the model may start with before its last character
Stems == {"", "a"}

\* the payload ends in a decimal digit
EndsInDigit(payload) ==
    \E stem \in Stems : \E d \in 0..9 : payload = stem \o Digit(d)

\* C16 (as claimed) - transaction ids identify transactions: any two
\* transactions of the ledger with different nonces have different identity
\* strings and different ids, whatever the payloads.
TransactionIdsUnique ==
    LET held == Held
        text == [k \in 1..Len(held) |-> IdentityString(held[k])]
    IN  \A j \in 1..Len(held) : \A k \in 1..Len(held) :
            held[j].nonce # held[k].nonce =>
                /\ text[j] # text[k]
                /\ held[j].id # held[k].id

\* C16 (amended) - any two transactions of the ledger with different nonces
\* whose payloads do not end in a decimal digit have different identity
\* strings and different ids.
TransactionIdsUniqueNoDigit ==
    LET held == Held
        text == [k \in 1..Len(held) |-> IdentityString(held[k])]
        plain == {k \in 1..Len(held) : ~EndsInDigit(held[k].payload)}
    IN  \A j \in plain : \A k \in plain :
            held[j].nonce # held[k].nonce =>
                /\ text[j] # text[k]
                /\ held[j].id # held[k].id

\* the same payload, free of digits, submitted with a nonce of one digit and
\* with a nonce of two digits that starts with that digit
TransactionIdsUniqueNoDigitWitness ==
    /\ Len(Held) = 11
    /\ Held[2].payload = "a" /\ Held[2].nonce = 1
    /\ Held[11].payload = "a" /\ Held[11].nonce = 10
    /\ Held[1].payload = "a1"
    /\ Len(chain) = 1

\* C17 - block ids are unique within a chain: no two blocks of the chain,
\* the genesis block included, have the same id.
BlockIdsUnique ==
    \A i \in 1..Len(chain) : \A j \in 1..Len(chain) :
        i # j => chain[i].id # chain[j].id

\* two blocks sealed from an empty batch with a block of one transaction
\* between them
BlockIdsUniqueWitness ==
    /\ Len(chain) = 4
    /\ chain[2].transactions = <<>>
    /\ Len(chain[3].transactions) = 1
    /\ chain[4].transactions = <<>>
    /\ chain[2].id # chain[4].id

\* C18 - timestamp ordering under a clock that never goes backwards: block
\* timestamps do not decrease along the chain, transaction timestamps do not
\* decrease in submission order, and every sealed transaction's timestamp
\* lies between the timestamps of the block before its own and of its own.
TimestampOrdering ==
    LET held == Held
    IN  /\ \A i \in 1..(Len(chain) - 1) :
              chain[i].timestamp <= chain[i + 1].timestamp
        /\ \A k \in 1..(Len(held) - 1) :
              held[k].timestamp <= held[k + 1].timestamp
        /\ \A i \in 2..Len(chain) :
              \A k \in 1..Len(chain[i].transactions) :
                  /\ chain[i - 1].timestamp <= chain[i].transactions[k].timestamp
                  /\ chain[i].transactions[k].timestamp <= chain[i].timestamp

\* the clock advanced between two submissions that were then sealed
TimestampOrderingWitness ==
    /\ Len(chain) = 2
    /\ Len(chain[2].transactions) = 2
    /\ chain[1].timestamp = 0
    /\ chain[2].transactions[1].timestamp = 0
    /\ chain[2].transactions[2].timestamp > 0
    /\ chain[2].timestamp = chain[2].transactions[2].timestamp

====
